---- MODULE Spec2Model ----
(***************************************************************************)
(* Model of the wrestlers.ai chat backend: the in-memory rate limiter      *)
(* (bump), the /api/chat route handler (POST) with its collaborators       *)
(* (Embedding Gateway, Vector Store, Completion Service, Conversation      *)
(* Ledger), as found in src/unnamed/part_000.                              *)
(***************************************************************************)
EXTENDS Integers, Sequences, FiniteSets, TLC

(***************************************************************************)
(* Program constants (src/unnamed/part_000, lines 68-69).                  *)
(***************************************************************************)
MinuteLimit == 10
MinuteWindowMs == 60000
DayLimit == 200
DayWindowMs == 86400000

(***************************************************************************)
(* Bounds of the model.                                                    *)
(***************************************************************************)
\* largest limit handed to bump when it is exercised on its own
MaxLimit == 2
\* how far past its limit a client keeps calling into one bucket
MaxOver == 2
\* clock steps taken while bump is exercised on its own
MaxBumpTicks == 2
\* clock steps taken while the route serves requests
MaxTicks == 2
\* user messages and conversations the ledger is let to hold
MaxChats == 2
MaxConvs == 2
\* requests a client makes in a minute while the ledger is watched
MaxRequests == 3
\* user messages (and conversations) let through while a client is held to its limits
MaxLoadChats == 1
\* ingest requests received
MaxIngests == 2
\* longest text and largest maxChars handed to chunkText on its own
MaxTextLen == 5
MaxChunkChars == 4

\* bucket keys, window lengths and clock steps used to exercise bump on its own
Keys == {"k1", "k2"}
WindowChoices == {0, 1000}
BumpDeltas == {1, 1000}

\* `undefined` for a numeric field of a JavaScript object
Undefined == -1

\* nothing recorded yet about the calls of bump on its own
NoBucket == [count |-> 0, resetAt |-> 0]
NoCall == [called |-> FALSE, key |-> "k1", at |-> 0, had |-> FALSE,
           pre |-> NoBucket, threw |-> FALSE, retryAfterSec |-> Undefined]
NoFirst == [n |-> 0, resetAt |-> 0, ok |-> {}]

\* the requests the server has in flight at once, and the client addresses
Slots == {"r1", "r2"}

VARIABLES
  now,            \* Date.now(), milliseconds
  ticks,          \* clock steps taken so far
  buckets,        \* a Map<string, Bucket> handed to bump on its own
  bLimit,         \* the limit argument of those calls
  bWindowMs,      \* the windowMs argument of those calls
  last,           \* the most recent call of bump on `buckets` and what it did
  first,          \* per key: the calls made during the key's first bucket
  minuteBuckets,  \* Map<string, Bucket>, 10 per minute per IP
  dayBuckets,     \* Map<string, Bucket>, 200 per day per IP
  pc,             \* per request: the await the handler is suspended at
  loc,            \* per request: the handler's local variables
  evt,            \* per request: the steps it has taken, in order
  resp,           \* per request: the response the handler returned
  conversations,  \* rows of table conversations (ids 1..conversations)
  messages,       \* rows of table messages, in append order
  crashed,        \* the process has died
  life,           \* per bucket: the calls admitted since the bucket was started
  hist,           \* per conversation: requests overlapped, failed half way, answered
  altMinute,      \* the minute table of a limiter that bumps the day bucket first
  altDay,         \* the day table of that limiter
  both,           \* the last request put to both limiters, and their answers
  adminKey,       \* process.env.RAG_ADMIN_KEY
  ipc,            \* per ingest request: the await its handler is suspended at
  iloc,           \* per ingest request: the handler's local variables
  iresp,          \* per ingest request: the response the handler returned
  ingested,       \* ingest requests received so far, and how each one ended
  documents,      \* rows of table documents, in insert order
  document_chunks, \* rows of table document_chunks, in insert order
  text,           \* the text handed to chunkText on its own
  maxChars,       \* the maxChars handed to chunkText on its own
  chunks,         \* what chunkText returned for them
  again,          \* what chunkText returned for each of those chunks
  chunked         \* how far the two rounds of chunking have come

bumpVars == <<buckets, bLimit, bWindowMs, last, first>>
limiterVars == <<minuteBuckets, dayBuckets, life>>
ledgerVars == <<conversations, messages, hist>>
orderVars == <<altMinute, altDay, both>>
ingestVars == <<adminKey, ipc, iloc, iresp, ingested, documents, document_chunks>>
chunkVars == <<text, maxChars, chunks, again, chunked>>
reqVars == <<pc, loc, evt, resp>>
vars == <<now, ticks, bumpVars, limiterVars, ledgerVars, reqVars, crashed, orderVars,
         ingestVars, chunkVars>>

(***************************************************************************)
(* Math.ceil(x / 1000) on integers.                                        *)
(***************************************************************************)
CeilDiv(x, d) == -((-x) \div d)

(***************************************************************************)
(* bump(buckets, key, limit, windowMs): the new table, whether the call    *)
(* threw, and the retryAfterSec the thrown error carries.                  *)
(***************************************************************************)
bump_offByOne(bs, key, limit, windowMs) ==
  IF key \notin DOMAIN bs \/ now > bs[key].resetAt
  THEN [buckets |-> (key :> [count |-> 1, resetAt |-> now + windowMs]) @@ bs,
        threw |-> FALSE, retryAfterSec |-> Undefined]
  ELSE LET c == bs[key].count + 1
           nb == [bs EXCEPT ![key].count = c]
       IN IF c >= limit
          THEN [buckets |-> nb, threw |-> TRUE,
                retryAfterSec |-> CeilDiv(bs[key].resetAt - now, 1000)]
          ELSE [buckets |-> nb, threw |-> FALSE, retryAfterSec |-> Undefined]

bump_staleWindow(bs, key, limit, windowMs) ==
  IF key \notin DOMAIN bs \/ now > bs[key].resetAt
  THEN [buckets |-> (key :> [count |-> 1,
                             resetAt |-> IF key \in DOMAIN bs
                                         THEN bs[key].resetAt + windowMs
                                         ELSE now + windowMs]) @@ bs,
        threw |-> FALSE, retryAfterSec |-> Undefined]
  ELSE LET c == bs[key].count + 1
           nb == [bs EXCEPT ![key].count = c]
       IN IF c > limit
          THEN [buckets |-> nb, threw |-> TRUE,
                retryAfterSec |-> CeilDiv(bs[key].resetAt - now, 1000)]
          ELSE [buckets |-> nb, threw |-> FALSE, retryAfterSec |-> Undefined]

bump_lateCheck(bs, key, limit, windowMs) ==
  IF key \notin DOMAIN bs \/ now > bs[key].resetAt
  THEN [buckets |-> (key :> [count |-> 1, resetAt |-> now + windowMs]) @@ bs,
        threw |-> FALSE, retryAfterSec |-> Undefined]
  ELSE LET c == bs[key].count + 1
           nb == [bs EXCEPT ![key].count = c]
       IN IF bs[key].count > limit
          THEN [buckets |-> nb, threw |-> TRUE,
                retryAfterSec |-> CeilDiv(bs[key].resetAt - now, 1000)]
          ELSE [buckets |-> nb, threw |-> FALSE, retryAfterSec |-> Undefined]

bump(bs, key, limit, windowMs) ==
  IF key \notin DOMAIN bs \/ now > bs[key].resetAt
  THEN [buckets |-> (key :> [count |-> 1, resetAt |-> now + windowMs]) @@ bs,
        threw |-> FALSE, retryAfterSec |-> Undefined]
  ELSE LET c == bs[key].count + 1
           nb == [bs EXCEPT ![key].count = c]
       IN IF c > limit
          THEN [buckets |-> nb, threw |-> TRUE,
                retryAfterSec |-> CeilDiv(bs[key].resetAt - now, 1000)]
          ELSE [buckets |-> nb, threw |-> FALSE, retryAfterSec |-> Undefined]

(***************************************************************************)
(* The /api/chat route: values.                                            *)
(***************************************************************************)
\* message texts a body may carry: characters are " " (white space) or "h"
Absent == <<"absent">>
MessageChoices == {Absent, <<>>, <<" ">>, <<" ", "h">>, <<"h">>}
\* rows the vector store may return for a query
ChunkChoices == {0, 4}
getClientIp(req) ==
  IF req.xff # <<>> THEN req.xff[1]
  ELSE IF req.realIp # "" THEN req.realIp
  ELSE "unknown"

\* the headers of a request: x-forwarded-for (a list) and x-real-ip
HeaderChoices == {[xff |-> <<"ip1", "proxy">>, realIp |-> "ip2"]}


NoErr == [status |-> Undefined, retryAfterSec |-> Undefined, message |-> "", by |-> "none"]
\* the error bump throws
RateLimitError(retryAfterSec, by) ==
  [status |-> 429, retryAfterSec |-> retryAfterSec,
   message |-> "Rate limit exceeded. Please try again shortly.", by |-> by]
\* errors the OpenAI client rejects with: an APIError carries the HTTP status
OpenAIErrors ==
  {[status |-> st, retryAfterSec |-> Undefined, message |-> "openai error", by |-> "openai"] :
     st \in {Undefined, 429}}
\* the error objects supabase returns carry no status
DbErrors ==
  {[status |-> Undefined, retryAfterSec |-> Undefined, message |-> "db error", by |-> "db"]}
\* req.json() rejects with a SyntaxError
JsonError ==
  [status |-> Undefined, retryAfterSec |-> Undefined, message |-> "bad json", by |-> "json"]

\* a response: status, Retry-After header, the body's fields, and the error caught
NoResp == [status |-> 0, retryAfter |-> Undefined, error |-> "", conversationId |-> 0,
           answer |-> FALSE, sources |-> Undefined, caught |-> NoErr]
\* the handler's locals, and which of the two bump calls passed
NoLoc == [message |-> <<>>, bodyConversationId |-> 0, conversationId |-> 0,
          chunks |-> 0, userRow |-> 0, minuteOk |-> FALSE, dayOk |-> FALSE]

\* String.prototype.trim on a text of " " and "h"
RECURSIVE TrimStart(_)
TrimStart(m) == IF m # <<>> /\ Head(m) = " " THEN TrimStart(Tail(m)) ELSE m
RECURSIVE TrimEnd(_)
TrimEnd(m) == IF m # <<>> /\ m[Len(m)] = " " THEN TrimEnd(SubSeq(m, 1, Len(m) - 1)) ELSE m
Trim(m) == TrimEnd(TrimStart(m))

\* (body.message || "").trim()
MessageOf(body) == Trim(IF body.message = Absent THEN <<>> ELSE body.message)

MinuteKey(ip) == <<"m", ip>>
DayKey(ip) == <<"d", ip>>

Min(a, b) == IF a < b THEN a ELSE b

(***************************************************************************)
(* The catch block of POST: the response built from a thrown error.        *)
(***************************************************************************)
Catch(err) ==
  LET status == IF err.status = Undefined THEN 500 ELSE err.status
  IN [status |-> status,
      retryAfter |-> IF status = 429 /\ err.retryAfterSec \notin {Undefined, 0}
                     THEN err.retryAfterSec ELSE Undefined,
      error |-> IF err.message = "" THEN "Server error" ELSE err.message,
      conversationId |-> 0, answer |-> FALSE, sources |-> Undefined, caught |-> err]

(***************************************************************************)
(* The two bump calls that open POST: minute bucket first, then the day    *)
(* bucket unless the first call threw.                                     *)
(***************************************************************************)
admit_minuteUnchecked(mb, db, ip) ==
  LET r1 == bump(mb, MinuteKey(ip), MinuteLimit, MinuteWindowMs)
      r2 == bump(db, DayKey(ip), DayLimit, DayWindowMs)
  IN IF r2.threw
     THEN [minute |-> r1.buckets, day |-> r2.buckets, threw |-> TRUE,
           err |-> RateLimitError(r2.retryAfterSec, "day"),
           minuteOk |-> ~r1.threw, dayOk |-> FALSE]
     ELSE [minute |-> r1.buckets, day |-> r2.buckets, threw |-> FALSE,
           err |-> NoErr, minuteOk |-> ~r1.threw, dayOk |-> TRUE]

\* both buckets are bumped before either result is looked at
admit_bothBumped(mb, db, ip) ==
  LET r1 == bump(mb, MinuteKey(ip), MinuteLimit, MinuteWindowMs)
      r2 == bump(db, DayKey(ip), DayLimit, DayWindowMs)
  IN IF r1.threw
     THEN [minute |-> r1.buckets, day |-> r2.buckets, threw |-> TRUE,
           err |-> RateLimitError(r1.retryAfterSec, "minute"),
           minuteOk |-> FALSE, dayOk |-> FALSE]
     ELSE IF r2.threw
     THEN [minute |-> r1.buckets, day |-> r2.buckets, threw |-> TRUE,
           err |-> RateLimitError(r2.retryAfterSec, "day"),
           minuteOk |-> TRUE, dayOk |-> FALSE]
     ELSE [minute |-> r1.buckets, day |-> r2.buckets, threw |-> FALSE,
           err |-> NoErr, minuteOk |-> TRUE, dayOk |-> TRUE]

admit(mb, db, ip) ==
  LET r1 == bump(mb, MinuteKey(ip), MinuteLimit, MinuteWindowMs)
      r2 == bump(db, DayKey(ip), DayLimit, DayWindowMs)
  IN IF r1.threw
     THEN [minute |-> r1.buckets, day |-> db, threw |-> TRUE,
           err |-> RateLimitError(r1.retryAfterSec, "minute"),
           minuteOk |-> FALSE, dayOk |-> FALSE]
     ELSE IF r2.threw
     THEN [minute |-> r1.buckets, day |-> r2.buckets, threw |-> TRUE,
           err |-> RateLimitError(r2.retryAfterSec, "day"),
           minuteOk |-> TRUE, dayOk |-> FALSE]
     ELSE [minute |-> r1.buckets, day |-> r2.buckets, threw |-> FALSE,
           err |-> NoErr, minuteOk |-> TRUE, dayOk |-> TRUE]

\* the same two calls in the other order: day bucket first
admitLongFirst(mb, db, ip) ==
  LET r1 == bump(db, DayKey(ip), DayLimit, DayWindowMs)
      r2 == bump(mb, MinuteKey(ip), MinuteLimit, MinuteWindowMs)
  IN IF r1.threw
     THEN [minute |-> mb, day |-> r1.buckets, threw |-> TRUE]
     ELSE IF r2.threw
     THEN [minute |-> r2.buckets, day |-> r1.buckets, threw |-> TRUE]
     ELSE [minute |-> r2.buckets, day |-> r1.buckets, threw |-> FALSE]

\* the calls a bucket has admitted since it was started
Admitted(lf, key, bs) ==
  IF key \in DOMAIN lf /\ lf[key].resetAt = bs[key].resetAt
  THEN [lf EXCEPT ![key].n = @ + 1]
  ELSE (key :> [resetAt |-> bs[key].resetAt, n |-> 1]) @@ lf

\* the calls a live bucket has counted
Live(bs, key) == key \in DOMAIN bs /\ now <= bs[key].resetAt
Count(bs, key) == IF Live(bs, key) THEN bs[key].count ELSE 0

\* a client stops calling once a live bucket is MaxOver past its limit
Calling(req) ==
  /\ Count(minuteBuckets, MinuteKey(getClientIp(req))) < MinuteLimit + MaxOver
  /\ Count(dayBuckets, DayKey(getClientIp(req))) < DayLimit + MaxOver
CallingAlt(req) ==
  /\ Count(altMinute, MinuteKey(getClientIp(req))) < MinuteLimit + MaxOver
  /\ Count(altDay, DayKey(getClientIp(req))) < DayLimit + MaxOver

NoBoth == [made |-> FALSE, same |-> TRUE, minuteAccepts |-> FALSE, dayAccepts |-> FALSE,
           shortFirst |-> FALSE, longFirst |-> FALSE]

InFlight(s) == pc[s] \notin {"idle", "done"}

\* the conversation the request in slot s is about (0: none yet)
Target(s) ==
  IF loc[s].conversationId # 0 THEN loc[s].conversationId ELSE loc[s].bodyConversationId
\* the requests on conversation c answered with 200 so far
OkCount(c) == IF c \in DOMAIN hist.ok THEN hist.ok[c] ELSE 0

(***************************************************************************)
(* chunkText(text, maxChars) of the ingest route.  A text is a sequence of *)
(* characters: a letter, a space, a line feed or a carriage return.        *)
(***************************************************************************)
Chars == {"a", " ", "\n", "\r"}
WhiteSpace == {" ", "\n", "\r"}
\* the texts of at most n characters
TextsUpTo(n) == UNION {[1..k -> Chars] : k \in 0..n}

\* text.replace(/\r\n/g, "\n")
\* (each carriage return that a line feed follows is dropped)
KeptInReplace(m) == ~m.dropped
ReplaceCrLf(t) ==
  LET marked == [i \in 1..Len(t) |->
                  [ch |-> t[i],
                   dropped |-> t[i] = "\r" /\ i < Len(t) /\ t[i + 1] = "\n"]]
      kept == SelectSeq(marked, KeptInReplace)
  IN [i \in 1..Len(kept) |-> kept[i].ch]

\* String.prototype.trim
TrimWs(t) ==
  LET inked == {i \in 1..Len(t) : t[i] \notin WhiteSpace}
  IN IF inked = {} THEN <<>>
     ELSE SubSeq(t, CHOOSE i \in inked : \A j \in 1..(i - 1) : t[j] \in WhiteSpace,
                    CHOOSE i \in inked : \A j \in (i + 1)..Len(t) : t[j] \in WhiteSpace)

\* the end of the match of /\n\s*\n/ that starts at i (0: no match there)
MatchEnd(t, i) ==
  IF t[i] # "\n" THEN 0
  ELSE LET ends == {j \in (i + 1)..Len(t) :
                      t[j] = "\n" /\ \A k \in (i + 1)..(j - 1) : t[k] \in WhiteSpace}
       IN IF ends = {} THEN 0 ELSE CHOOSE j \in ends : \A k \in ends : j >= k

\* String.prototype.split(/\n\s*\n/)
RECURSIVE SplitBlank(_)
SplitBlank(t) ==
  LET starts == {i \in 1..Len(t) : t[i] = "\n" /\ MatchEnd(t, i) # 0}
  IN IF starts = {} THEN <<t>>
     ELSE LET i == CHOOSE x \in starts : \A y \in starts : x <= y
          IN <<SubSeq(t, 1, i - 1)>> \o SplitBlank(SubSeq(t, MatchEnd(t, i) + 1, Len(t)))

\* line 135: const block = p.trim()
Block_untrimmed(p) == p
Block(p) == TrimWs(p)

\* line 142: block.length <= maxChars ? block : block.slice(0, maxChars)
Fit_whole(block, max) == block
Fit(block, max) == IF Len(block) <= max THEN block ELSE SubSeq(block, 1, max)

\* lines 141 and 145: if (current) chunks.push(current)
Flush_dropped(cs, current) == cs
Flush(cs, current) == IF current # <<>> THEN Append(cs, current) ELSE cs

\* lines 134-144: the loop over the paragraphs from the i-th on
RECURSIVE ChunkLoop(_, _, _, _, _)
ChunkLoop(paragraphs, i, cs, current, max) ==
  IF i > Len(paragraphs) THEN Flush(cs, current)
  ELSE LET block == Block(paragraphs[i])
       IN IF block = <<>> THEN ChunkLoop(paragraphs, i + 1, cs, current, max)
          ELSE IF Len(current) + 2 + Len(block) <= max
          THEN ChunkLoop(paragraphs, i + 1, cs,
                         IF current # <<>> THEN current \o <<"\n", "\n">> \o block
                         ELSE block, max)
          ELSE ChunkLoop(paragraphs, i + 1, Flush(cs, current), Fit(block, max), max)

chunkText(t, max) ==
  ChunkLoop(SplitBlank(TrimWs(ReplaceCrLf(t))), 1, <<>>, <<>>, max)

(***************************************************************************)
(* The /ingest route: values.                                              *)
(***************************************************************************)
\* the requests the ingest route has in flight at once
IngestSlots == {"i1", "i2"}
\* the configured admin secret; RAG_ADMIN_KEY is "" when it is not set
Secret == "secret"
EnvChoices == {"", Secret}
\* the x-admin-key header of a request: missing, empty, wrong or right
KeyChoices ==
  {[present |-> FALSE, value |-> ""], [present |-> TRUE, value |-> ""],
   [present |-> TRUE, value |-> "wrong"], [present |-> TRUE, value |-> Secret]}
\* line 170: chunkText(text, 900)
IngestMaxChars == 900
\* a paragraph that fills a chunk
LongParagraph == [i \in 1..IngestMaxChars |-> "a"]
\* the bodies of ingest requests: title "" and text <<>> stand for missing fields
IngestBodies ==
  [title : {"", "t"},
   text : {<<>>, <<" ">>, <<"a">>, LongParagraph \o <<"\n", "\n", "a">>}]
\* emb.data[i].embedding of undefined
TypeError ==
  [status |-> Undefined, retryAfterSec |-> Undefined,
   message |-> "Cannot read properties of undefined", by |-> "js"]

NoIngestLoc == [id |-> 0, text |-> <<>>, doc |-> 0, chunks |-> <<>>]
NoIngestResp == [status |-> 0, error |-> "", ok |-> FALSE, documentId |-> 0,
                 chunks |-> Undefined]
\* the catch block of the ingest route: always 500
IngestCatch(err) ==
  [NoIngestResp EXCEPT !.status = 500,
                       !.error = IF err.message = "" THEN "Server error" ELSE err.message]

\* line 153: the request carries the configured secret
Authorized_keyOnly(key) == key.present /\ key.value = adminKey
Authorized(key) == adminKey # "" /\ key.present /\ key.value = adminKey

IdleIngest ==
  /\ adminKey = Secret
  /\ ipc = [s \in IngestSlots |-> "idle"]
  /\ iloc = [s \in IngestSlots |-> NoIngestLoc]
  /\ iresp = [s \in IngestSlots |-> NoIngestResp]
  /\ ingested = <<>>
  /\ documents = <<>>
  /\ document_chunks = <<>>

IdleChunk ==
  /\ text = <<>>
  /\ maxChars = 0
  /\ chunks = <<>>
  /\ again = <<>>
  /\ chunked = 0

IdleBump ==
  /\ buckets = <<>>
  /\ bLimit = 0
  /\ bWindowMs = 0
  /\ last = NoCall
  /\ first = [k \in Keys |-> NoFirst]

IdleChat ==
  /\ minuteBuckets = <<>>
  /\ dayBuckets = <<>>
  /\ life = [minute |-> <<>>, day |-> <<>>]
  /\ pc = [s \in Slots |-> "idle"]
  /\ loc = [s \in Slots |-> NoLoc]
  /\ evt = [s \in Slots |-> <<>>]
  /\ resp = [s \in Slots |-> NoResp]
  /\ conversations = 0
  /\ messages = <<>>
  /\ hist = [overlapped |-> {}, failed |-> {}, ok |-> <<>>]
  /\ crashed = FALSE
  /\ altMinute = <<>>
  /\ altDay = <<>>
  /\ both = NoBoth

Init ==
  /\ now = 0
  /\ ticks = 0
  /\ IdleBump
  /\ IdleChat
  /\ IdleIngest
  /\ IdleChunk

\* the handler of request s returns response r after step e
Return(s, r, e) ==
  /\ pc' = [pc EXCEPT ![s] = "done"]
  /\ resp' = [resp EXCEPT ![s] = r]
  /\ evt' = [evt EXCEPT ![s] = @ \o <<e, "return">>]
  /\ loc' = [loc EXCEPT ![s] = [NoLoc EXCEPT !.minuteOk = loc[s].minuteOk,
                                            !.dayOk = loc[s].dayOk]]

\* the handler of request s throws err into its catch block
Throw(s, err) == Return(s, Catch(err), "catch")

(***************************************************************************)
(* POST, from its entry to `await req.json()`: a request arrives in a free *)
(* slot and passes or fails the two bump calls.                            *)
(***************************************************************************)
Admit(s, req) ==
  /\ ~crashed
  /\ pc[s] \in {"idle", "done"}
  /\ LET ip == getClientIp(req)
         a == admit(minuteBuckets, dayBuckets, ip)
     IN /\ minuteBuckets' = a.minute
        /\ dayBuckets' = a.day
        /\ life' = [minute |-> IF a.minuteOk
                               THEN Admitted(life.minute, MinuteKey(ip), a.minute)
                               ELSE life.minute,
                    day |-> IF a.dayOk
                            THEN Admitted(life.day, DayKey(ip), a.day)
                            ELSE life.day]
        /\ IF a.threw
           THEN /\ pc' = [pc EXCEPT ![s] = "done"]
                /\ resp' = [resp EXCEPT ![s] = Catch(a.err)]
                /\ evt' = [evt EXCEPT ![s] = <<"rejected", "catch", "return">>]
                /\ loc' = [loc EXCEPT ![s] = [NoLoc EXCEPT !.minuteOk = a.minuteOk,
                                                          !.dayOk = a.dayOk]]
           ELSE /\ pc' = [pc EXCEPT ![s] = "json"]
                /\ resp' = [resp EXCEPT ![s] = NoResp]
                /\ evt' = [evt EXCEPT ![s] = <<"admitted">>]
                /\ loc' = [loc EXCEPT ![s] = [NoLoc EXCEPT !.minuteOk = a.minuteOk,
                                                          !.dayOk = a.dayOk]]
  /\ UNCHANGED <<now, ticks, bumpVars, ledgerVars, crashed, orderVars, ingestVars, chunkVars>>

(***************************************************************************)
(* The bodies offered to a request.  The ledger is kept finite: a body     *)
(* with a message is offered while fewer than MaxChats user rows exist or  *)
(* are on their way, and one that opens a conversation while fewer than    *)
(* MaxConvs conversations exist or are on their way.                       *)
(***************************************************************************)
UserRows == Cardinality({i \in 1..Len(messages) : messages[i].role = "user"})
ChatsOnTheWay ==
  Cardinality({s \in Slots : pc[s] \in {"embed", "query", "conv", "user"}
                             /\ loc[s].message # <<>>})
ConvsOnTheWay ==
  Cardinality({s \in Slots : pc[s] \in {"embed", "query", "conv"}
                             /\ loc[s].message # <<>> /\ loc[s].bodyConversationId = 0})
BodiesUpTo(maxChats, maxConvs) ==
  {b \in [message : MessageChoices, conversationId : 0..conversations] :
     MessageOf(b) # <<>> =>
       /\ UserRows + ChatsOnTheWay < maxChats
       /\ b.conversationId = 0 => conversations + ConvsOnTheWay < maxConvs}
Bodies == BodiesUpTo(MaxChats, MaxConvs)
\* under load the bodies carry no message
LimiterBodies == BodiesUpTo(0, 0)

(***************************************************************************)
(* POST, one action per await: req.json()                                  *)
(***************************************************************************)
\* lines 71-75 and 43: the body is read, the message trimmed, the embedding asked for
JsonOk(s, body) ==
  /\ ~crashed
  /\ pc[s] = "json"
  /\ pc' = [pc EXCEPT ![s] = "embed"]
  /\ loc' = [loc EXCEPT ![s].message = MessageOf(body),
                        ![s].bodyConversationId = body.conversationId]
  /\ evt' = [evt EXCEPT ![s] = @ \o <<"json.ok", "embed.call">>]
  /\ hist' = IF /\ body.conversationId # 0
                /\ \E t \in Slots \ {s} : InFlight(t) /\ Target(t) = body.conversationId
             THEN [hist EXCEPT !.overlapped = @ \cup {body.conversationId}]
             ELSE hist
  /\ UNCHANGED <<now, ticks, bumpVars, limiterVars, conversations, messages, resp, crashed,
                 orderVars, ingestVars, chunkVars>>

JsonFail(s) ==
  /\ ~crashed
  /\ pc[s] = "json"
  /\ Throw(s, JsonError)
  /\ UNCHANGED <<now, ticks, bumpVars, limiterVars, ledgerVars, crashed, orderVars, ingestVars, chunkVars>>

(***************************************************************************)
(* retrieveContext: openai.embeddings.create, then rpc match_document_chunks *)
(***************************************************************************)
EmbedOk(s) ==
  /\ ~crashed
  /\ pc[s] = "embed"
  /\ pc' = [pc EXCEPT ![s] = "query"]
  /\ evt' = [evt EXCEPT ![s] = @ \o <<"embed.ok", "query.call">>]
  /\ UNCHANGED <<now, ticks, bumpVars, limiterVars, ledgerVars, loc, resp, crashed, orderVars, ingestVars, chunkVars>>

EmbedFail(s, e) ==
  /\ ~crashed
  /\ pc[s] = "embed"
  /\ Throw(s, e)
  /\ UNCHANGED <<now, ticks, bumpVars, limiterVars, ledgerVars, crashed, orderVars, ingestVars, chunkVars>>

\* lines 50-112: the chunks arrive; sources and context are built; an empty
\* message is answered 400; else the conversation is created if the body named none
QueryOk(s, n) ==
  /\ ~crashed
  /\ pc[s] = "query"
  /\ IF loc[s].message = <<>>
     THEN Return(s, [NoResp EXCEPT !.status = 400, !.error = "Message is required"],
                 "query.ok")
     ELSE IF loc[s].bodyConversationId = 0
     THEN /\ pc' = [pc EXCEPT ![s] = "conv"]
          /\ loc' = [loc EXCEPT ![s].chunks = n]
          /\ evt' = [evt EXCEPT ![s] = @ \o <<"query.ok", "conv.call">>]
          /\ UNCHANGED resp
     ELSE /\ pc' = [pc EXCEPT ![s] = "user"]
          /\ loc' = [loc EXCEPT ![s].chunks = n,
                                ![s].conversationId = loc[s].bodyConversationId]
          /\ evt' = [evt EXCEPT ![s] = @ \o <<"query.ok", "user.call">>]
          /\ UNCHANGED resp
  /\ UNCHANGED <<now, ticks, bumpVars, limiterVars, ledgerVars, crashed, orderVars, ingestVars, chunkVars>>

QueryFail(s, e) ==
  /\ ~crashed
  /\ pc[s] = "query"
  /\ Throw(s, e)
  /\ UNCHANGED <<now, ticks, bumpVars, limiterVars, ledgerVars, crashed, orderVars, ingestVars, chunkVars>>

(***************************************************************************)
(* insert into conversations                                               *)
(***************************************************************************)
ConvOk(s) ==
  /\ ~crashed
  /\ pc[s] = "conv"
  /\ conversations' = conversations + 1
  /\ pc' = [pc EXCEPT ![s] = "user"]
  /\ loc' = [loc EXCEPT ![s].conversationId = conversations + 1]
  /\ evt' = [evt EXCEPT ![s] = @ \o <<"conv.ok", "user.call">>]
  /\ UNCHANGED <<now, ticks, bumpVars, limiterVars, messages, hist, resp, crashed, orderVars, ingestVars, chunkVars>>

ConvFail(s, e) ==
  /\ ~crashed
  /\ pc[s] = "conv"
  /\ Throw(s, e)
  /\ UNCHANGED <<now, ticks, bumpVars, limiterVars, ledgerVars, crashed, orderVars, ingestVars, chunkVars>>

(***************************************************************************)
(* insert the user message, then call openai.responses.create              *)
(***************************************************************************)
\* the completion is asked for without waiting for the insert, which is lost
UserOk_unawaited(s) ==
  /\ ~crashed
  /\ pc[s] = "user"
  /\ pc' = [pc EXCEPT ![s] = "complete"]
  /\ evt' = [evt EXCEPT ![s] = @ \o <<"complete.call">>]
  /\ UNCHANGED <<now, ticks, bumpVars, limiterVars, ledgerVars, loc, resp, crashed, orderVars, ingestVars, chunkVars>>

UserOk(s) ==
  /\ ~crashed
  /\ pc[s] = "user"
  /\ messages' = Append(messages, [conversation_id |-> loc[s].conversationId,
                                   role |-> "user", replyTo |-> 0])
  /\ pc' = [pc EXCEPT ![s] = "complete"]
  /\ loc' = [loc EXCEPT ![s].userRow = Len(messages) + 1]
  /\ evt' = [evt EXCEPT ![s] = @ \o <<"user.ok", "complete.call">>]
  /\ UNCHANGED <<now, ticks, bumpVars, limiterVars, conversations, hist, resp, crashed,
                 orderVars, ingestVars, chunkVars>>

UserFail(s, e) ==
  /\ ~crashed
  /\ pc[s] = "user"
  /\ Throw(s, e)
  /\ UNCHANGED <<now, ticks, bumpVars, limiterVars, ledgerVars, crashed, orderVars, ingestVars, chunkVars>>

(***************************************************************************)
(* the completion arrives; insert the assistant message                    *)
(***************************************************************************)
CompleteOk(s) ==
  /\ ~crashed
  /\ pc[s] = "complete"
  /\ pc' = [pc EXCEPT ![s] = "asst"]
  /\ evt' = [evt EXCEPT ![s] = @ \o <<"complete.ok", "asst.call">>]
  /\ UNCHANGED <<now, ticks, bumpVars, limiterVars, ledgerVars, loc, resp, crashed, orderVars, ingestVars, chunkVars>>

CompleteFail(s, e) ==
  /\ ~crashed
  /\ pc[s] = "complete"
  /\ Throw(s, e)
  /\ hist' = [hist EXCEPT !.failed = @ \cup {loc[s].conversationId}]
  /\ UNCHANGED <<now, ticks, bumpVars, limiterVars, conversations, messages, crashed, orderVars, ingestVars, chunkVars>>

\* the assistant row is inserted a second time
AsstOk_twice(s) ==
  /\ ~crashed
  /\ pc[s] = "asst"
  /\ LET row == [conversation_id |-> loc[s].conversationId,
                 role |-> "assistant", replyTo |-> loc[s].userRow]
     IN messages' = messages \o <<row, row>>
  /\ hist' = [hist EXCEPT !.ok = (loc[s].conversationId :> OkCount(loc[s].conversationId) + 1)
                                   @@ @]
  /\ Return(s, [NoResp EXCEPT !.status = 200,
                              !.conversationId = loc[s].conversationId,
                              !.answer = TRUE,
                              !.sources = Min(3, loc[s].chunks)],
            "asst.ok")
  /\ UNCHANGED <<now, ticks, bumpVars, limiterVars, conversations, crashed, orderVars, ingestVars, chunkVars>>

\* lines 141-148: the assistant row is in; the answer is returned
AsstOk(s) ==
  /\ ~crashed
  /\ pc[s] = "asst"
  /\ messages' = Append(messages, [conversation_id |-> loc[s].conversationId,
                                   role |-> "assistant", replyTo |-> loc[s].userRow])
  /\ hist' = [hist EXCEPT !.ok = (loc[s].conversationId :> OkCount(loc[s].conversationId) + 1)
                                   @@ @]
  /\ Return(s, [NoResp EXCEPT !.status = 200,
                              !.conversationId = loc[s].conversationId,
                              !.answer = TRUE,
                              !.sources = Min(3, loc[s].chunks)],
            "asst.ok")
  /\ UNCHANGED <<now, ticks, bumpVars, limiterVars, conversations, crashed, orderVars, ingestVars, chunkVars>>

\* the answer already computed is handed out with the error
AsstFail_answered(s, e) ==
  /\ ~crashed
  /\ pc[s] = "asst"
  /\ Return(s, [Catch(e) EXCEPT !.answer = TRUE, !.conversationId = loc[s].conversationId],
            "catch")
  /\ hist' = [hist EXCEPT !.failed = @ \cup {loc[s].conversationId}]
  /\ UNCHANGED <<now, ticks, bumpVars, limiterVars, conversations, messages, crashed, orderVars,
                 ingestVars, chunkVars>>

AsstFail(s, e) ==
  /\ ~crashed
  /\ pc[s] = "asst"
  /\ Throw(s, e)
  /\ hist' = [hist EXCEPT !.failed = @ \cup {loc[s].conversationId}]
  /\ UNCHANGED <<now, ticks, bumpVars, limiterVars, conversations, messages, crashed, orderVars, ingestVars, chunkVars>>

\* the process dies: its memory (the bucket tables, the responses handed out) is
\* gone, nothing in flight goes on, and the ledger keeps its rows
Crash ==
  /\ ~crashed
  /\ crashed' = TRUE
  /\ minuteBuckets' = <<>>
  /\ dayBuckets' = <<>>
  /\ life' = [minute |-> <<>>, day |-> <<>>]
  /\ pc' = [s \in Slots |-> IF InFlight(s) THEN pc[s] ELSE "idle"]
  /\ loc' = [s \in Slots |-> IF InFlight(s) THEN loc[s] ELSE NoLoc]
  /\ evt' = [s \in Slots |-> IF InFlight(s) THEN evt[s] ELSE <<>>]
  /\ resp' = [s \in Slots |-> NoResp]
  /\ UNCHANGED <<now, ticks, bumpVars, ledgerVars, orderVars, ingestVars, chunkVars>>

\* the clock moves on by d milliseconds
Tick(d) ==
  /\ ~crashed
  /\ now' = now + d
  /\ ticks' = ticks + 1
  /\ UNCHANGED <<bumpVars, limiterVars, ledgerVars, reqVars, crashed, orderVars, ingestVars, chunkVars>>

\* a client makes at most MaxRequests requests in a minute
Asking(req) == Count(minuteBuckets, MinuteKey(getClientIp(req))) < MaxRequests

Next ==
  \/ \E s \in Slots, req \in HeaderChoices : Asking(req) /\ Admit(s, req)
  \/ \E s \in Slots : \E body \in Bodies : JsonOk(s, body)
  \/ \E s \in Slots : JsonFail(s)
  \/ \E s \in Slots : EmbedOk(s)
  \/ \E s \in Slots : \E e \in OpenAIErrors : EmbedFail(s, e)
  \/ \E s \in Slots : \E n \in ChunkChoices : QueryOk(s, n)
  \/ \E s \in Slots : \E e \in DbErrors : QueryFail(s, e)
  \/ \E s \in Slots : ConvOk(s)
  \/ \E s \in Slots : \E e \in DbErrors : ConvFail(s, e)
  \/ \E s \in Slots : UserOk(s)
  \/ \E s \in Slots : \E e \in DbErrors : UserFail(s, e)
  \/ \E s \in Slots : CompleteOk(s)
  \/ \E s \in Slots : \E e \in OpenAIErrors : CompleteFail(s, e)
  \/ \E s \in Slots : AsstOk(s)
  \/ \E s \in Slots : \E e \in DbErrors : AsstFail(s, e)
  \/ Crash

Spec == Init /\ [][Next]_vars

(***************************************************************************)
(* The route under load: bodies carry no message, so no request reaches    *)
(* the ledger; clients keep calling until MaxOver past a limit;            *)
(* the clock moves a minute window on while a minute bucket is live and    *)
(* its client has stopped calling (or, MaxTicks times, at any count).      *)
(***************************************************************************)
LimiterTick ==
  /\ \E req \in HeaderChoices :
       /\ Live(minuteBuckets, MinuteKey(getClientIp(req)))
       /\ ~Calling(req) \/ ticks < MaxTicks
  /\ Tick(MinuteWindowMs)

NextLimiter ==
  \/ \E s \in Slots, req \in HeaderChoices : Calling(req) /\ Admit(s, req)
  \/ \E s \in Slots : \E body \in LimiterBodies : JsonOk(s, body)
  \/ \E s \in Slots : JsonFail(s)
  \/ \E s \in Slots : EmbedOk(s)
  \/ \E s \in Slots : \E e \in OpenAIErrors : EmbedFail(s, e)
  \/ \E s \in Slots : \E n \in ChunkChoices : QueryOk(s, n)
  \/ \E s \in Slots : \E e \in DbErrors : QueryFail(s, e)
  \/ LimiterTick

SpecLimiter == Init /\ [][NextLimiter]_vars

(***************************************************************************)
(* The route held to its limits with the ledger in reach: clients keep     *)
(* calling until MaxOver past the minute limit, and up to MaxLoadChats of  *)
(* the bodies carry a message.                                             *)
(***************************************************************************)
LoadBodies == BodiesUpTo(MaxLoadChats, MaxLoadChats)

NextAdmission ==
  \/ \E s \in Slots, req \in HeaderChoices : Calling(req) /\ Admit(s, req)
  \/ \E s \in Slots : \E body \in LoadBodies : JsonOk(s, body)
  \/ \E s \in Slots : JsonFail(s)
  \/ \E s \in Slots : EmbedOk(s)
  \/ \E s \in Slots : \E e \in OpenAIErrors : EmbedFail(s, e)
  \/ \E s \in Slots : \E n \in ChunkChoices : QueryOk(s, n)
  \/ \E s \in Slots : \E e \in DbErrors : QueryFail(s, e)
  \/ \E s \in Slots : ConvOk(s)
  \/ \E s \in Slots : \E e \in DbErrors : ConvFail(s, e)
  \/ \E s \in Slots : UserOk(s)
  \/ \E s \in Slots : \E e \in DbErrors : UserFail(s, e)
  \/ \E s \in Slots : CompleteOk(s)
  \/ \E s \in Slots : \E e \in OpenAIErrors : CompleteFail(s, e)
  \/ \E s \in Slots : AsstOk(s)
  \/ \E s \in Slots : \E e \in DbErrors : AsstFail(s, e)

SpecAdmission == Init /\ [][NextAdmission]_vars

(***************************************************************************)
(* The two bump calls of POST put beside the same calls in the other       *)
(* order: every request goes to both limiters at the same time.            *)
(***************************************************************************)
RequestBoth(req) ==
  /\ Calling(req) /\ CallingAlt(req)
  /\ LET ip == getClientIp(req)
         a == admit(minuteBuckets, dayBuckets, ip)
         b == admitLongFirst(altMinute, altDay, ip)
     IN /\ minuteBuckets' = a.minute
        /\ dayBuckets' = a.day
        /\ altMinute' = b.minute
        /\ altDay' = b.day
        /\ both' = [made |-> TRUE,
                    same |-> minuteBuckets = altMinute /\ dayBuckets = altDay,
                    minuteAccepts |->
                      ~bump(minuteBuckets, MinuteKey(ip), MinuteLimit, MinuteWindowMs).threw,
                    dayAccepts |->
                      ~bump(dayBuckets, DayKey(ip), DayLimit, DayWindowMs).threw,
                    shortFirst |-> ~a.threw,
                    longFirst |-> ~b.threw]
  /\ UNCHANGED <<now, ticks, bumpVars, life, ledgerVars, reqVars, crashed, ingestVars, chunkVars>>

OrderTick ==
  /\ \E req \in HeaderChoices :
       /\ Live(minuteBuckets, MinuteKey(getClientIp(req)))
       /\ ~(Calling(req) /\ CallingAlt(req)) \/ ticks < MaxTicks
  /\ Tick(MinuteWindowMs)

NextOrder ==
  \/ \E req \in HeaderChoices : RequestBoth(req)
  \/ OrderTick

SpecOrder == Init /\ [][NextOrder]_vars

(***************************************************************************)
(* bump on its own: one table, any key, a limit and a window drawn at the  *)
(* start, calls at any time.                                               *)
(***************************************************************************)

InitBump ==
  /\ now = 0
  /\ buckets = <<>>
  /\ bLimit \in 0..MaxLimit
  /\ bWindowMs \in WindowChoices
  /\ last = NoCall
  /\ first = [k \in Keys |-> NoFirst]
  /\ ticks = 0
  /\ IdleChat
  /\ IdleIngest
  /\ IdleChunk

\* one call bump(buckets, k, bLimit, bWindowMs)
BumpCall(k) ==
  /\ Count(buckets, k) < bLimit + MaxOver
  /\ LET r == bump(buckets, k, bLimit, bWindowMs)
         had == k \in DOMAIN buckets
     IN /\ buckets' = r.buckets
        /\ last' = [called |-> TRUE, key |-> k, at |-> now, had |-> had,
                    pre |-> IF had THEN buckets[k] ELSE NoBucket,
                    threw |-> r.threw, retryAfterSec |-> r.retryAfterSec]
        /\ first' =
             IF first[k].n = 0
             THEN [first EXCEPT ![k] = [n |-> 1, resetAt |-> r.buckets[k].resetAt,
                                        ok |-> IF r.threw THEN {} ELSE {1}]]
             ELSE IF now <= first[k].resetAt
             THEN [first EXCEPT ![k].n = @ + 1,
                                ![k].ok = IF r.threw THEN @ ELSE @ \cup {first[k].n + 1}]
             ELSE first
  /\ UNCHANGED <<now, bLimit, bWindowMs, ticks, limiterVars, ledgerVars, reqVars, crashed, orderVars, ingestVars, chunkVars>>

BumpTick == ticks < MaxBumpTicks /\ \E d \in BumpDeltas : Tick(d)

NextBump ==
  \/ \E k \in Keys : BumpCall(k)
  \/ BumpTick

SpecBump == InitBump /\ [][NextBump]_vars

(***************************************************************************)
(* The /ingest route, one action per await.                                *)
(***************************************************************************)
\* the handler of ingest request s returns response r
IngestReturn(s, r) ==
  /\ ipc' = [ipc EXCEPT ![s] = "done"]
  /\ iresp' = [iresp EXCEPT ![s] = r]
  /\ iloc' = [iloc EXCEPT ![s] = NoIngestLoc]
  /\ ingested' = [ingested EXCEPT ![iloc[s].id].end = r.status]

IngestThrow(s, err) == IngestReturn(s, IngestCatch(err))

\* the handler of ingest request s goes on to await `to` after calling `called`
IngestGoOn(s, to, called) ==
  /\ ipc' = [ipc EXCEPT ![s] = to]
  /\ ingested' = [ingested EXCEPT ![iloc[s].id].calls = @ \cup called]
  /\ UNCHANGED iresp

\* lines 150-157: a request arrives; the secret is checked; req.json() is awaited
IngestArrive(s, key) ==
  /\ ipc[s] \in {"idle", "done"}
  /\ Len(ingested) < MaxIngests
  /\ iloc' = [iloc EXCEPT ![s] = [NoIngestLoc EXCEPT !.id = Len(ingested) + 1]]
  /\ IF Authorized(key)
     THEN /\ ipc' = [ipc EXCEPT ![s] = "json"]
          /\ iresp' = [iresp EXCEPT ![s] = NoIngestResp]
          /\ ingested' = Append(ingested, [key |-> key, end |-> 0, calls |-> {}])
     ELSE /\ ipc' = [ipc EXCEPT ![s] = "done"]
          /\ iresp' = [iresp EXCEPT ![s] = [NoIngestResp EXCEPT !.status = 401,
                                                               !.error = "Unauthorized"]]
          /\ ingested' = Append(ingested, [key |-> key, end |-> 401, calls |-> {}])
  /\ UNCHANGED <<now, ticks, bumpVars, limiterVars, ledgerVars, reqVars, crashed, orderVars,
                 adminKey, documents, document_chunks, chunkVars>>

\* lines 157-166: the body is read; title and text are required; the document
\* row is sent to the store
IngestJsonOk(s, body) ==
  /\ ipc[s] = "json"
  /\ IF body.title = "" \/ body.text = <<>>
     THEN IngestReturn(s, [NoIngestResp EXCEPT !.status = 400,
                                              !.error = "title and text are required"])
     ELSE /\ IngestGoOn(s, "doc", {"documents.insert"})
          /\ iloc' = [iloc EXCEPT ![s].text = body.text]
  /\ UNCHANGED <<now, ticks, bumpVars, limiterVars, ledgerVars, reqVars, crashed, orderVars,
                 adminKey, documents, document_chunks, chunkVars>>

IngestJsonFail(s) ==
  /\ ipc[s] = "json"
  /\ IngestThrow(s, JsonError)
  /\ UNCHANGED <<now, ticks, bumpVars, limiterVars, ledgerVars, reqVars, crashed, orderVars,
                 adminKey, documents, document_chunks, chunkVars>>

\* lines 162-176: the document row is in; the text is chunked; the embeddings
\* of the chunks are asked for
IngestDocOk(s) ==
  /\ ipc[s] = "doc"
  /\ documents' = Append(documents, [id |-> Len(documents) + 1, request |-> iloc[s].id])
  /\ iloc' = [iloc EXCEPT ![s].doc = Len(documents) + 1,
                          ![s].chunks = chunkText(iloc[s].text, IngestMaxChars),
                          ![s].text = <<>>]
  /\ IngestGoOn(s, "embed", {"chunkText", "embeddings.create"})
  /\ UNCHANGED <<now, ticks, bumpVars, limiterVars, ledgerVars, reqVars, crashed, orderVars,
                 adminKey, document_chunks, chunkVars>>

IngestDocFail(s, e) ==
  /\ ipc[s] = "doc"
  /\ IngestThrow(s, e)
  /\ UNCHANGED <<now, ticks, bumpVars, limiterVars, ledgerVars, reqVars, crashed, orderVars,
                 adminKey, documents, document_chunks, chunkVars>>

\* lines 173-185: n embeddings arrive; the rows are built (emb.data[i] of a
\* missing entry throws) and sent to the store
IngestEmbedOk(s, n) ==
  /\ ipc[s] = "embed"
  /\ IF n < Len(iloc[s].chunks)
     THEN IngestThrow(s, TypeError)
     ELSE /\ IngestGoOn(s, "chunks", {"document_chunks.insert"})
          /\ UNCHANGED iloc
  /\ UNCHANGED <<now, ticks, bumpVars, limiterVars, ledgerVars, reqVars, crashed, orderVars,
                 adminKey, documents, document_chunks, chunkVars>>

IngestEmbedFail(s, e) ==
  /\ ipc[s] = "embed"
  /\ IngestThrow(s, e)
  /\ UNCHANGED <<now, ticks, bumpVars, limiterVars, ledgerVars, reqVars, crashed, orderVars,
                 adminKey, documents, document_chunks, chunkVars>>

\* lines 178-188: the chunk rows are in; {ok, documentId, chunks} is returned
IngestChunksOk(s) ==
  /\ ipc[s] = "chunks"
  /\ document_chunks' =
       document_chunks \o [i \in 1..Len(iloc[s].chunks) |->
                             [document_id |-> iloc[s].doc, chunk_index |-> i - 1,
                              content |-> iloc[s].chunks[i]]]
  /\ IngestReturn(s, [NoIngestResp EXCEPT !.status = 200, !.ok = TRUE,
                                          !.documentId = iloc[s].doc,
                                          !.chunks = Len(iloc[s].chunks)])
  /\ UNCHANGED <<now, ticks, bumpVars, limiterVars, ledgerVars, reqVars, crashed, orderVars,
                 adminKey, documents, chunkVars>>

IngestChunksFail(s, e) ==
  /\ ipc[s] = "chunks"
  /\ IngestThrow(s, e)
  /\ UNCHANGED <<now, ticks, bumpVars, limiterVars, ledgerVars, reqVars, crashed, orderVars,
                 adminKey, documents, document_chunks, chunkVars>>

InitIngest ==
  /\ now = 0
  /\ ticks = 0
  /\ IdleBump
  /\ IdleChat
  /\ IdleChunk
  /\ adminKey \in EnvChoices
  /\ ipc = [s \in IngestSlots |-> "idle"]
  /\ iloc = [s \in IngestSlots |-> NoIngestLoc]
  /\ iresp = [s \in IngestSlots |-> NoIngestResp]
  /\ ingested = <<>>
  /\ documents = <<>>
  /\ document_chunks = <<>>

NextIngest ==
  \/ \E s \in IngestSlots, key \in KeyChoices : IngestArrive(s, key)
  \/ \E s \in IngestSlots : \E body \in IngestBodies : IngestJsonOk(s, body)
  \/ \E s \in IngestSlots : IngestJsonFail(s)
  \/ \E s \in IngestSlots : IngestDocOk(s)
  \/ \E s \in IngestSlots : \E e \in DbErrors : IngestDocFail(s, e)
  \/ \E s \in IngestSlots : \E n \in {0, Len(iloc[s].chunks)} : IngestEmbedOk(s, n)
  \/ \E s \in IngestSlots : \E e \in OpenAIErrors : IngestEmbedFail(s, e)
  \/ \E s \in IngestSlots : IngestChunksOk(s)
  \/ \E s \in IngestSlots : \E e \in DbErrors : IngestChunksFail(s, e)

SpecIngest == InitIngest /\ [][NextIngest]_vars

(***************************************************************************)
(* chunkText on its own: a text and a maxChars drawn at the start, the     *)
(* text chunked, then each chunk chunked again.                            *)
(***************************************************************************)
InitChunk ==
  /\ now = 0
  /\ ticks = 0
  /\ IdleBump
  /\ IdleChat
  /\ IdleIngest
  /\ text \in TextsUpTo(MaxTextLen)
  /\ maxChars \in 0..MaxChunkChars
  /\ chunks = <<>>
  /\ again = <<>>
  /\ chunked = 0

ChunkCall ==
  /\ chunked = 0
  /\ chunks' = chunkText(text, maxChars)
  /\ chunked' = 1
  /\ UNCHANGED <<now, ticks, bumpVars, limiterVars, ledgerVars, reqVars, crashed, orderVars,
                 ingestVars, text, maxChars, again>>

ChunkAgain ==
  /\ chunked = 1
  /\ again' = [i \in 1..Len(chunks) |-> chunkText(chunks[i], maxChars)]
  /\ chunked' = 2
  /\ UNCHANGED <<now, ticks, bumpVars, limiterVars, ledgerVars, reqVars, crashed, orderVars,
                 ingestVars, text, maxChars, chunks>>

NextChunk ==
  \/ ChunkCall
  \/ ChunkAgain

SpecChunk == InitChunk /\ [][NextChunk]_vars

(***************************************************************************)
(* C1: from a key with no bucket, of the bump calls made at times not      *)
(* later than the bucket's resetAt, exactly the first `limit` return       *)
(* normally and every later one throws.                                    *)
(***************************************************************************)
\* the claim as stated, for any limit
C1_AnyLimit ==
  \A k \in Keys : \A i \in 1..first[k].n : (i \in first[k].ok) <=> (i <= bLimit)

\* the claim for limits of at least 1
C1_FirstLimitCallsPass ==
  bLimit >= 1 =>
    \A k \in Keys : \A i \in 1..first[k].n : (i \in first[k].ok) <=> (i <= bLimit)

C1_Witness ==
  /\ bLimit >= 2
  /\ \E k \in Keys : /\ first[k].n = bLimit + 2
                     /\ first[k].ok = 1..bLimit
                     /\ last.key = k /\ last.threw /\ last.at > 0

(***************************************************************************)
(* C3: a bump call on a key with no bucket, or made once the bucket's      *)
(* resetAt has passed (whatever its count), is admitted and leaves the     *)
(* bucket at count = 1, resetAt = now + windowMs.                          *)
(***************************************************************************)
C3_ExpiredBucketRestarts ==
  (last.called /\ (~last.had \/ last.at > last.pre.resetAt)) =>
    /\ ~last.threw
    /\ buckets[last.key] = [count |-> 1, resetAt |-> last.at + bWindowMs]

C3_Witness ==
  /\ last.called /\ last.had
  /\ last.at > last.pre.resetAt
  /\ last.pre.count >= bLimit + 2
  /\ buckets[last.key] = [count |-> 1, resetAt |-> last.at + bWindowMs]

(***************************************************************************)
(* C2: whatever requests are in flight, the two bump calls of a request    *)
(* are one step, and no bucket admits more calls in its lifetime than its  *)
(* limit: 10 for a minute bucket, 200 for a day bucket.                    *)
(***************************************************************************)
C2_AdmittedWithinLimit ==
  /\ \A k \in DOMAIN life.minute : life.minute[k].n <= MinuteLimit
  /\ \A k \in DOMAIN life.day : life.day[k].n <= DayLimit

C2_Witness ==
  /\ \E k \in DOMAIN life.day : life.day[k].n = DayLimit
  /\ \E k \in DOMAIN life.minute : life.minute[k].n = MinuteLimit
  /\ \E s, t \in Slots : /\ resp[s].caught.by = "day"
                         /\ pc[s] = "done"
                         /\ InFlight(t)

(***************************************************************************)
(* C4: every rejection by bump carries a retryAfterSec with                *)
(* 0 < retryAfterSec <= windowMs / 1000, also when now = resetAt.          *)
(***************************************************************************)
WindowOf(by) == IF by = "minute" THEN MinuteWindowMs ELSE DayWindowMs

C4_RetryAfterInRange ==
  \A s \in Slots :
    resp[s].caught.by \in {"minute", "day"} =>
      /\ 0 < resp[s].caught.retryAfterSec
      /\ resp[s].caught.retryAfterSec * 1000 <= WindowOf(resp[s].caught.by)

(***************************************************************************)
(* C5: a request is admitted only if both windows accept it, and the       *)
(* outcome of every request of a sequence is the same whether the minute   *)
(* bucket is bumped first (as POST does) or the day bucket first.          *)
(***************************************************************************)
\* the claim as stated: the two orders answer every request of a sequence alike
C5_OrderNeverMatters ==
  both.made => /\ both.shortFirst => (both.minuteAccepts /\ both.dayAccepts)
               /\ both.shortFirst = both.longFirst

\* the two orders answer alike a request they meet with the same tables
C5_OrderFromSameTables ==
  both.made => /\ both.shortFirst => (both.minuteAccepts /\ both.dayAccepts)
               /\ both.same => both.shortFirst = both.longFirst

C5_Witness ==
  /\ both.made /\ both.same
  /\ ~both.shortFirst /\ ~both.longFirst
  /\ ~both.minuteAccepts
  /\ now > 0

(***************************************************************************)
(* C6: a request the rate limiter rejects calls no collaborator and writes *)
(* no row, and a request that reaches a collaborator was admitted by both  *)
(* windows.                                                                *)
(***************************************************************************)
Calls == {"embed.call", "query.call", "conv.call", "user.call", "complete.call", "asst.call"}
Writes == {"conv.ok", "user.ok", "asst.ok"}
Steps(s) == {evt[s][i] : i \in 1..Len(evt[s])}

C6_AdmissionFirst ==
  \A s \in Slots :
    /\ (~loc[s].minuteOk \/ ~loc[s].dayOk) => Steps(s) \cap (Calls \cup Writes) = {}
    /\ resp[s].caught.by \in {"minute", "day"} => Steps(s) \cap (Calls \cup Writes) = {}
    /\ Steps(s) \cap (Calls \cup Writes) # {} => evt[s][1] = "admitted"

C6_Witness ==
  \E s, t \in Slots :
    /\ resp[s].status = 429 /\ resp[s].caught.by = "minute"
    /\ Steps(s) \cap (Calls \cup Writes) = {}
    /\ resp[t].status = 200
    /\ Writes \subseteq Steps(t)

(***************************************************************************)
(* C7: every response with status 429 carries an error body and a          *)
(* Retry-After header holding a number of seconds.                         *)
(***************************************************************************)
C7_RetryAfterOnEvery429 ==
  \A s \in Slots :
    resp[s].status = 429 => /\ resp[s].error # ""
                            /\ resp[s].retryAfter # Undefined
                            /\ resp[s].retryAfter > 0

(***************************************************************************)
(* The ledger seen per conversation.                                       *)
(***************************************************************************)
\* the positions in messages of the rows of conversation c, in append order
RECURSIVE RowsFrom(_, _)
RowsFrom(c, i) ==
  IF i > Len(messages) THEN <<>>
  ELSE IF messages[i].conversation_id = c THEN <<i>> \o RowsFrom(c, i + 1)
  ELSE RowsFrom(c, i + 1)
RowsOf(c) == RowsFrom(c, 1)
\* how many of the first n rows of messages are rows of conversation c with role r
CountIn(c, r, n) ==
  Cardinality({i \in 1..n : messages[i].conversation_id = c /\ messages[i].role = r})
\* the place of step e in the steps of request s (0: not taken)
Pos(s, e) ==
  IF e \in Steps(s) THEN CHOOSE i \in 1..Len(evt[s]) : evt[s][i] = e ELSE 0

(***************************************************************************)
(* C8: in every state of the ledger, also after a crash, each assistant    *)
(* row answers a user row of the same conversation appended before it, no  *)
(* two assistant rows answer the same user row, every prefix of a          *)
(* conversation holds at most as many assistant rows as user rows, a       *)
(* request persists its user row before it calls the completion service    *)
(* and its assistant row before it returns its answer.                     *)
(***************************************************************************)
C8_UserTurnBeforeReply ==
  /\ \A j \in 1..Len(messages) :
       messages[j].role = "assistant" =>
         /\ messages[j].replyTo \in 1..(j - 1)
         /\ messages[messages[j].replyTo].role = "user"
         /\ messages[messages[j].replyTo].conversation_id = messages[j].conversation_id
         /\ \A k \in 1..Len(messages) :
              (k # j /\ messages[k].role = "assistant") =>
                messages[k].replyTo # messages[j].replyTo
  /\ \A c \in 1..conversations : \A n \in 0..Len(messages) :
       CountIn(c, "assistant", n) <= CountIn(c, "user", n)
  /\ \A s \in Slots :
       /\ "complete.call" \in Steps(s) =>
            /\ 0 < Pos(s, "user.ok") /\ Pos(s, "user.ok") < Pos(s, "complete.call")
            /\ loc[s].userRow \in 1..Len(messages) \/ ~InFlight(s)
       /\ resp[s].status = 200 =>
            0 < Pos(s, "asst.ok") /\ Pos(s, "asst.ok") < Pos(s, "return")

C8_Witness ==
  /\ crashed
  /\ \E s \in Slots : /\ pc[s] = "complete"
                      /\ CountIn(loc[s].conversationId, "assistant", Len(messages)) >= 1
                      /\ CountIn(loc[s].conversationId, "user", Len(messages))
                           > CountIn(loc[s].conversationId, "assistant", Len(messages))

(***************************************************************************)
(* C9: a request takes its steps in the order admit, create conversation,  *)
(* persist user message, retrieve (embedding call, vector-store query),    *)
(* call the completion service, persist assistant message, return.         *)
(***************************************************************************)
StepOrder ==
  <<"admitted", "conv.call", "conv.ok", "user.call", "user.ok", "embed.call", "embed.ok",
    "query.call", "query.ok", "complete.call", "complete.ok", "asst.call", "asst.ok",
    "return">>

C9_StepsInSpecifiedOrder ==
  \A s \in Slots : \A a, b \in 1..Len(StepOrder) :
    (a < b /\ StepOrder[a] \in Steps(s) /\ StepOrder[b] \in Steps(s)) =>
      Pos(s, StepOrder[a]) < Pos(s, StepOrder[b])

(***************************************************************************)
(* C10: a conversation whose N answered requests are all the requests that *)
(* wrote to it holds 2N rows, user and assistant in turn, each assistant   *)
(* row answering the row before it; a crash between the user row and the   *)
(* completion call leaves an odd number of rows, the last a user row.      *)
(***************************************************************************)
Alternates(c) ==
  LET rows == RowsOf(c)
  IN \A n \in 1..Len(rows) :
       IF n % 2 = 1
       THEN messages[rows[n]].role = "user"
       ELSE /\ messages[rows[n]].role = "assistant"
            /\ messages[rows[n]].replyTo = rows[n - 1]
\* requests past their user row and short of their assistant row
Pending(c) == {s \in Slots : pc[s] \in {"complete", "asst"} /\ loc[s].conversationId = c}
InOrder(c) ==
  /\ Alternates(c)
  /\ Len(RowsOf(c)) = 2 * OkCount(c) + Cardinality(Pending(c))
  /\ (crashed /\ Pending(c) # {}) =>
       /\ Len(RowsOf(c)) % 2 = 1
       /\ messages[RowsOf(c)[Len(RowsOf(c))]].role = "user"

C11_EmptyMessageIs400 ==
  [][\A s \in Slots :
       (pc[s] \in {"embed", "query"} /\ loc[s].message = <<>> /\ pc'[s] = "done") =>
         /\ resp'[s].status = 400
         /\ conversations' = conversations
         /\ messages' = messages]_vars

(***************************************************************************)
(* C12: when a collaborator (embedding gateway, vector store, completion   *)
(* service, ledger) fails, the response has a 500-class status and carries *)
(* the failure's message, whatever status the error object has of its own. *)
(***************************************************************************)
C12_UpstreamFailureIs500 ==
  \A s \in Slots :
    resp[s].caught.by \in {"openai", "db"} =>
      /\ resp[s].status \in 500..599
      /\ resp[s].error = resp[s].caught.message

(***************************************************************************)
(* C13: when the insert of the assistant message fails after the           *)
(* completion arrived, the request ends with an error response without     *)
(* answer, conversationId or sources, the insert is not tried again, and   *)
(* the ledger keeps the request's user message.                            *)
(***************************************************************************)
Times(s, e) == Cardinality({i \in 1..Len(evt'[s]) : evt'[s][i] = e})

C13_AsstPersistFailureIsAnError ==
  [][\A s \in Slots :
       (pc[s] = "asst" /\ pc'[s] = "done" /\ Len(messages') = Len(messages)) =>
         /\ resp'[s].status >= 400
         /\ resp'[s].error # ""
         /\ ~resp'[s].answer
         /\ resp'[s].conversationId = 0
         /\ resp'[s].sources = Undefined
         /\ Times(s, "asst.call") = 1
         /\ Times(s, "complete.call") = 1
         /\ messages' = messages
         /\ loc[s].userRow \in 1..Len(messages')
         /\ messages'[loc[s].userRow] =
              [conversation_id |-> loc[s].conversationId, role |-> "user", replyTo |-> 0]]_vars

C13_Witness ==
  \E s \in Slots :
    /\ pc[s] = "done"
    /\ "asst.call" \in Steps(s) /\ "asst.ok" \notin Steps(s)
    /\ resp[s].status = 500 /\ resp[s].caught.by = "db"
    /\ \E c \in hist.failed :
         CountIn(c, "user", Len(messages)) = CountIn(c, "assistant", Len(messages)) + 1

(***************************************************************************)
(* The paragraphs of a text, and of a sequence of chunks.                  *)
(***************************************************************************)
NonBlank(p) == p # <<>>
\* the non-blank paragraphs of a text, trimmed, in document order
Paragraphs(t) ==
  LET ps == SplitBlank(TrimWs(ReplaceCrLf(t)))
  IN SelectSeq([i \in 1..Len(ps) |-> TrimWs(ps[i])], NonBlank)
\* the chunks from the i-th on, split back at blank lines, one after another
RECURSIVE SplitBack(_, _)
SplitBack(cs, i) ==
  IF i > Len(cs) THEN <<>> ELSE SplitBlank(cs[i]) \o SplitBack(cs, i + 1)
AllFit(t, max) == \A i \in 1..Len(Paragraphs(t)) : Len(Paragraphs(t)[i]) <= max

(***************************************************************************)
(* C15: for every text and every maxChars >= 0, each chunk chunkText       *)
(* returns is non-empty and at most maxChars long, and a text that is      *)
(* empty or white space only yields no chunk.                              *)
(***************************************************************************)
C15_ChunksFitAndAreNonEmpty ==
  chunked >= 1 =>
    /\ \A i \in 1..Len(chunks) : chunks[i] # <<>> /\ Len(chunks[i]) <= maxChars
    /\ (\A i \in 1..Len(text) : text[i] \in WhiteSpace) => chunks = <<>>

C15_Witness ==
  /\ chunked >= 1
  /\ Len(chunks) = 2
  /\ ~AllFit(text, maxChars)
  /\ Len(chunks[1]) = maxChars

(***************************************************************************)
(* C16: the chunks of a text, split back at blank lines and put one after  *)
(* another, are the non-blank paragraphs of the text, each once and in     *)
(* document order.                                                         *)
(***************************************************************************)
\* the claim as stated: for every text and every maxChars
C16_AllParagraphsKept ==
  chunked >= 1 => SplitBack(chunks, 1) = Paragraphs(text)

\* the claim for texts none of whose paragraphs is longer than maxChars
C16_FittingParagraphsKept ==
  (chunked >= 1 /\ AllFit(text, maxChars)) => SplitBack(chunks, 1) = Paragraphs(text)

C16_Witness ==
  /\ chunked >= 1
  /\ AllFit(text, maxChars)
  /\ Len(Paragraphs(text)) = 2
  /\ Len(chunks) = 1
  /\ SplitBack(chunks, 1) = Paragraphs(text)

(***************************************************************************)
(* C17: chunking a chunk again with the same maxChars returns that one     *)
(* chunk, also for a chunk cut from a paragraph longer than maxChars.      *)
(***************************************************************************)
C17_RechunkingIsIdempotent ==
  chunked = 2 => \A i \in 1..Len(chunks) : again[i] = <<chunks[i]>>

(***************************************************************************)
(* The store seen per ingest request.                                      *)
(***************************************************************************)
\* the request carries the configured admin secret, and one is configured
CarriesSecret(r) == adminKey # "" /\ r.key.present /\ r.key.value = adminKey
\* the document rows request i created, and the chunk rows of document d
DocsOf(i) == {d \in 1..Len(documents) : documents[d].request = i}
ChunkRowsOf(d) == SelectSeq(document_chunks, LAMBDA row : row.document_id = d)

(***************************************************************************)
(* C14: a request whose x-admin-key is missing or differs from the         *)
(* configured secret, or that arrives while no secret is configured, is    *)
(* answered 401, calls neither the chunker, the embedding gateway nor the  *)
(* store, and no document or chunk row comes from it.                      *)
(***************************************************************************)
C14_UnauthorizedIngestStoresNothing ==
  \A i \in 1..Len(ingested) :
    ~CarriesSecret(ingested[i]) =>
      /\ ingested[i].end = 401
      /\ ingested[i].calls = {}
      /\ DocsOf(i) = {}
      /\ \A s \in IngestSlots : iloc[s].id # i \/ ipc[s] = "done"

C14_Witness ==
  /\ adminKey = Secret
  /\ documents # <<>> /\ document_chunks # <<>>
  /\ \E i, j \in 1..Len(ingested) :
       /\ i < j
       /\ ingested[i].end = 200
       /\ ingested[j].key.value = "wrong" /\ ingested[j].end = 401
  /\ Len(documents) = 1

(***************************************************************************)
(* C20: every document row in the store belongs to a request that          *)
(* answered {ok: true} (or is still being handled), and the chunk rows of  *)
(* an answered request are there with chunk_index 0..n-1; a request        *)
(* answered 400 or 500 leaves no row behind.                               *)
(***************************************************************************)
C20_FailedIngestLeavesNoRows ==
  \A d \in 1..Len(documents) :
    LET r == ingested[documents[d].request]
        rows == ChunkRowsOf(documents[d].id)
    IN /\ r.end \in {0, 200}
       /\ r.end = 200 => \A n \in 1..Len(rows) : rows[n].chunk_index = n - 1
       /\ r.end = 0 => rows = <<>>

(***************************************************************************)
(* C18: a bump call rejected at time t with retryAfterSec = r > 0 and      *)
(* followed on the same key, with no call in between, by a call at         *)
(* t + 1000 * r: that call is admitted.                                    *)
(***************************************************************************)
C18_RetryAfterTheWaitIsAdmitted ==
  [][(/\ last.called /\ last.threw
      /\ last.retryAfterSec > 0
      /\ last' # last
      /\ last'.key = last.key
      /\ last'.at = last.at + 1000 * last.retryAfterSec) => ~last'.threw]_vars

(***************************************************************************)
(* C19: a request the minute window rejects leaves the day bucket table    *)
(* as it was, and a request either window rejects leaves the resetAt of    *)
(* every live bucket as it was.                                            *)
(***************************************************************************)
C19_RejectionLeavesWindowsAlone ==
  [][\A s \in Slots, req \in HeaderChoices :
       (Admit(s, req) /\ resp'[s].status = 429) =>
         /\ resp'[s].caught.by = "minute" => dayBuckets' = dayBuckets
         /\ \A k \in DOMAIN minuteBuckets :
              Live(minuteBuckets, k) => minuteBuckets'[k].resetAt = minuteBuckets[k].resetAt
         /\ \A k \in DOMAIN dayBuckets :
              Live(dayBuckets, k) => dayBuckets'[k].resetAt = dayBuckets[k].resetAt]_vars

C19_Witness ==
  \E s \in Slots, req \in HeaderChoices :
    /\ pc[s] = "done" /\ resp[s].status = 429 /\ resp[s].caught.by = "minute"
    /\ Count(minuteBuckets, MinuteKey(getClientIp(req))) = MinuteLimit + 2
    /\ Count(dayBuckets, DayKey(getClientIp(req))) = MinuteLimit
    /\ now = 0
====
